---- MODULE Spec2Model ----
(***************************************************************************)
(* Model of the counseling-session repository:                             *)
(*   - the repair-retry converter  psi_case_to_cactus  with its parser     *)
(*     _parse_json_strict and validator _validate_cactus_shape             *)
(*     (psi_to_cactus-checkpoint.py),                                      *)
(*   - the phase/trust policy  next_phase, parse_trust_score (helpers.py), *)
(*   - the session  CamelCounselingSession  with its two agents            *)
(*     (camel_agent-checkpoint.py),                                        *)
(*   - the helper functions  trust_eval_interval (helpers.py) and          *)
(*     get_case_by_id (psi_to_cactus-checkpoint.py), applied once each,    *)
(*     as are generate_plan and trim_camel_history.                        *)
(*                                                                         *)
(* Text is a sequence of tokens (strings); a token is a character or an    *)
(* indivisible word.  Python values are tagged records [t, v].             *)
(***************************************************************************)
EXTENDS Integers, Sequences, FiniteSets, TLC

VARIABLES
    \* ---- psi_case_to_cactus (one invocation) ----
    psi_case,       \* argument: the case record
    system_prompt,  \* argument: system prompt text
    max_retries,    \* argument: retry budget
    attempt,        \* loop variable of `for attempt in range(max_retries + 1)`
    last_err,       \* local last_err: None or the text of the last error
    conv_pc,        \* "loop" | "returned" | "failed" | "transport"
    conv_out,       \* returned object, or raised exception
    calls,          \* Gateway log: the prompts of the calls made so far
    responses       \* Gateway log: the texts the Gateway returned so far

convVars == <<psi_case, system_prompt, max_retries, attempt, last_err,
              conv_pc, conv_out, calls, responses>>

VARIABLES
    \* ---- phase/trust policy, applied turn after turn ----
    phase,          \* the current phase of the dialogue
    phase_log,      \* the phases the dialogue has been in, oldest first
    phase_pc,       \* "running" | "crashed" (an exception left the loop)
    last_eval       \* the last application of next_phase: text, arguments, outcome

phaseVars == <<phase, phase_log, phase_pc, last_eval>>

VARIABLES
    \* ---- one CamelCounselingSession ----
    intake_form,    \* field: None or str
    reason,         \* field: None or str
    cbt_technique,  \* field: None or str
    cbt_plan,       \* field: None or str
    history,        \* field: list of [role, message]
    planner_log,    \* arguments of the generate_plan calls made so far
    counselor_log,  \* arguments of the next_utterance calls made so far
    last_op         \* the last operation: name, arguments, state before, outcome

sessVars == <<intake_form, reason, cbt_technique, cbt_plan, history,
              planner_log, counselor_log, last_op>>

VARIABLES
    \* ---- one application of a helper function ----
    fn,             \* the function applied: "none" while no helper is under study
    fn_args,        \* its arguments
    fn_out          \* <<>> before the call, then Ret(value) or the exception raised

fnVars == <<fn, fn_args, fn_out>>

vars == <<convVars, phaseVars, sessVars, fnVars>>

\* no helper function is under study
FnIdle == fn = "none" /\ fn_args = <<>> /\ fn_out = <<>>

----------------------------------------------------------------------------
(* Bounds *)

MaxRetries == 2
MaxEvals == 3       \* applications of next_phase in one dialogue
MaxTextLen == 3     \* length of an evaluator text
MaxOpenness == 6    \* largest ordinary openness argument
MaxOps == 3         \* operations on one session

----------------------------------------------------------------------------
(* Python values *)

Str(s)  == [t |-> "str",  v |-> s]       \* s: sequence of tokens
Num(n)  == [t |-> "int",  v |-> n]
Flt(n)  == [t |-> "float", v |-> n]      \* n: the value times ten
Bool(b) == [t |-> "bool", v |-> b]
None    == [t |-> "NoneType", v |-> <<>>]
List(s) == [t |-> "list", v |-> s]
Dict(f) == [t |-> "dict", v |-> f]       \* f: function from key strings

\* an exception: its class name and the text of str(e), as text segments
Exc(type, msg) == [t |-> "exc", type |-> type, msg |-> msg]
OK == [t |-> "ok", type |-> "", msg |-> <<>>]

\* f"{type(e).__name__}: {e}"
ErrText(e) == <<e.type, ": ">> \o e.msg

----------------------------------------------------------------------------
(* Text helpers: str.strip, startswith, `in`, split, rsplit *)

IsSpace(c) == c \in {" ", "\n", "\t"}

RECURSIVE LStrip(_)
LStrip(s) == IF s = <<>> THEN s
             ELSE IF IsSpace(Head(s)) THEN LStrip(Tail(s)) ELSE s

RECURSIVE RStrip(_)
RStrip(s) == IF s = <<>> THEN s
             ELSE IF IsSpace(s[Len(s)]) THEN RStrip(SubSeq(s, 1, Len(s) - 1)) ELSE s

Strip(s) == RStrip(LStrip(s))

\* positions i at which pat occurs in s (pat non-empty)
Occurs(s, pat) == {i \in 1..(Len(s) - Len(pat) + 1) : SubSeq(s, i, i + Len(pat) - 1) = pat}

Contains(s, pat) == Occurs(s, pat) # {}

Min(S) == CHOOSE x \in S : \A y \in S : x <= y
Max(S) == CHOOSE x \in S : \A y \in S : x >= y

StartsWith(s, pat) == Len(s) >= Len(pat) /\ SubSeq(s, 1, Len(pat)) = pat

\* s.split(pat, 1)[0] and s.split(pat, 1)[1], for s containing pat
BeforeFirst(s, pat) == SubSeq(s, 1, Min(Occurs(s, pat)) - 1)
AfterFirst(s, pat)  == SubSeq(s, Min(Occurs(s, pat)) + Len(pat), Len(s))
\* s.rsplit(pat, 1)[0], for s containing pat
BeforeLast(s, pat)  == SubSeq(s, 1, Max(Occurs(s, pat)) - 1)

\* s.replace(c, rep) for a one-token pattern c
RECURSIVE Replace(_, _, _)
Replace(s, c, rep) == IF s = <<>> THEN <<>>
                      ELSE (IF Head(s) = c THEN rep ELSE <<Head(s)>>) \o Replace(Tail(s), c, rep)

----------------------------------------------------------------------------
(* _validate_cactus_shape *)

ValueError(msg) == Exc("ValueError", msg)
TypeError(msg)  == Exc("TypeError", msg)

\* first failing check of an ordered sequence of check results
FirstErr(checks) ==
    IF \E i \in DOMAIN checks : checks[i].t # "ok"
    THEN checks[Min({i \in DOMAIN checks : checks[i].t # "ok"})]
    ELSE OK

\* isinstance(x, str) and x.strip()
IsNonEmptyStr(x) == x.t = "str" /\ Strip(x.v) # <<>>

\* any((not isinstance(x, str) or not x.strip()) for x in lst)
AnyBadItem(lst) == \E i \in 1..Len(lst) : ~IsNonEmptyStr(lst[i])

required_top == <<"thought", "patterns", "intake_form", "cbt_technique", "cbt_plan">>

ci_required == <<"name", "age", "gender", "occupation", "education",
                 "marital_status", "family_details">>

list_fields == << <<"presenting_problem", 3>>, <<"past_history", 1>>,
                  <<"academic_occupational_functioning_level", 1>> >>

plan_keys == <<"1", "2", "3", "4", "5">>

\* Python's `k in obj` for a str key k; an exception for types without `in`
PyIn(k, obj) ==
    CASE obj.t = "dict" -> k \in DOMAIN obj.v
      [] obj.t = "list" -> \E i \in 1..Len(obj.v) : obj.v[i].t = "str" /\ obj.v[i].v = <<k>>
      [] obj.t = "str"  -> Contains(obj.v, <<k>>)
      [] OTHER          -> FALSE

HasIn(obj) == obj.t \in {"dict", "list", "str"}

\* `if k not in obj: raise ValueError(...)`
TopCheck(obj, k) ==
    IF ~HasIn(obj)
    THEN TypeError(<<"argument of type '", obj.t, "' is not iterable">>)
    ELSE IF ~PyIn(k, obj) THEN ValueError(<<"Missing top-level key: ", k>>)
    ELSE OK

\* obj["thought"] on an object that is not a dict
SubscriptError(obj) ==
    IF obj.t = "list"
    THEN TypeError(<<"list indices must be integers or slices, not str">>)
    ELSE TypeError(<<"string indices must be integers, not 'str'">>)

\* body of `for k in ci_required`
CheckClientInfo(ci, k) ==
    IF k \notin DOMAIN ci.v
    THEN ValueError(<<"Missing intake_form.client_info key: ", k>>)
    ELSE LET v == ci.v[k] IN
         IF k = "age"
         THEN IF v.t \in {"int", "float", "bool"} THEN OK
              ELSE ValueError(<<"client_info.age must be a number">>)
         ELSE IF ~IsNonEmptyStr(v)
              THEN ValueError(<<"client_info.", k, " must be a non-empty string">>)
              ELSE OK

\* variant of CheckListField: the length test is `<=`
CheckListField_Strict(intake, field, min_len) ==
    IF \/ field \notin DOMAIN intake.v
       \/ intake.v[field].t # "list"
       \/ Len(intake.v[field].v) <= min_len
    THEN ValueError(<<"intake_form.", field, " must be a list with at least ",
                      ToString(min_len), " items">>)
    ELSE IF AnyBadItem(intake.v[field].v)
         THEN ValueError(<<"intake_form.", field, " must contain only non-empty strings">>)
         ELSE OK

\* body of `for field, min_len in list_fields`
CheckListField(intake, field, min_len) ==
    IF \/ field \notin DOMAIN intake.v
       \/ intake.v[field].t # "list"
       \/ Len(intake.v[field].v) < min_len
    THEN ValueError(<<"intake_form.", field, " must be a list with at least ",
                      ToString(min_len), " items">>)
    ELSE IF AnyBadItem(intake.v[field].v)
         THEN ValueError(<<"intake_form.", field, " must contain only non-empty strings">>)
         ELSE OK

\* a required non-empty string field of intake_form
CheckIntakeStr(intake, field) ==
    IF field \notin DOMAIN intake.v \/ ~IsNonEmptyStr(intake.v[field])
    THEN ValueError(<<"intake_form.", field, " must be a non-empty string">>)
    ELSE OK

\* body of `for k in ["1", "2", "3", "4", "5"]`
CheckPlanKey(plan, k) ==
    IF k \notin DOMAIN plan.v \/ ~IsNonEmptyStr(plan.v[k])
    THEN ValueError(<<"cbt_plan", " must contain non-empty strings for keys '1'..'5'">>)
    ELSE OK

\* variant of CheckIntake: the list fields are checked before client_info
CheckIntake_ListsFirst(intake) ==
    IF intake.t # "dict" THEN ValueError(<<"intake_form must be an object">>)
    ELSE LET lf == FirstErr([i \in 1..Len(list_fields) |->
                        CheckListField(intake, list_fields[i][1], list_fields[i][2])])
         IN  IF lf.t # "ok" THEN lf
             ELSE IF "client_info" \notin DOMAIN intake.v \/ intake.v["client_info"].t # "dict"
             THEN ValueError(<<"intake_form.", "client_info", " must be an object">>)
             ELSE LET ci == FirstErr([i \in 1..Len(ci_required) |->
                                 CheckClientInfo(intake.v["client_info"], ci_required[i])])
                  IN  IF ci.t # "ok" THEN ci
                      ELSE FirstErr(<<CheckIntakeStr(intake, "reason_for_seeking_counseling"),
                                      CheckIntakeStr(intake, "social_support_system")>>)

\* the checks on obj["intake_form"], lines 85-116
CheckIntake(intake) ==
    IF intake.t # "dict" THEN ValueError(<<"intake_form must be an object">>)
    ELSE IF "client_info" \notin DOMAIN intake.v \/ intake.v["client_info"].t # "dict"
    THEN ValueError(<<"intake_form.", "client_info", " must be an object">>)
    ELSE LET ci == FirstErr([i \in 1..Len(ci_required) |->
                        CheckClientInfo(intake.v["client_info"], ci_required[i])])
             lf == FirstErr([i \in 1..Len(list_fields) |->
                        CheckListField(intake, list_fields[i][1], list_fields[i][2])])
         IN  IF ci.t # "ok" THEN ci
             ELSE IF lf.t # "ok" THEN lf
             ELSE FirstErr(<<CheckIntakeStr(intake, "reason_for_seeking_counseling"),
                             CheckIntakeStr(intake, "social_support_system")>>)

CheckPlan(plan) ==
    IF plan.t # "dict" THEN ValueError(<<"cbt_plan must be an object">>)
    ELSE FirstErr([i \in 1..Len(plan_keys) |-> CheckPlanKey(plan, plan_keys[i])])

\* OK when the function returns, otherwise the exception it raises
_validate_cactus_shape(obj) ==
    LET top == FirstErr([i \in 1..Len(required_top) |-> TopCheck(obj, required_top[i])]) IN
    IF top.t # "ok" THEN top
    ELSE IF obj.t # "dict" THEN SubscriptError(obj)
    ELSE IF ~IsNonEmptyStr(obj.v["thought"])
    THEN ValueError(<<"thought must be a non-empty string">>)
    ELSE IF obj.v["patterns"].t # "list" \/ obj.v["patterns"].v = <<>>
    THEN ValueError(<<"patterns must be a non-empty list of strings">>)
    ELSE IF AnyBadItem(obj.v["patterns"].v)
    THEN ValueError(<<"patterns must contain only non-empty strings">>)
    ELSE LET intake == CheckIntake(obj.v["intake_form"]) IN
         IF intake.t # "ok" THEN intake
         ELSE IF ~IsNonEmptyStr(obj.v["cbt_technique"])
         THEN ValueError(<<"cbt_technique must be a non-empty string">>)
         ELSE CheckPlan(obj.v["cbt_plan"])

----------------------------------------------------------------------------
(* Records used as Gateway output *)

Txt == Str(<<"a">>)

ValidClientInfo ==
    Dict([k \in {ci_required[i] : i \in 1..Len(ci_required)} |->
            IF k = "age" THEN Num(45) ELSE Txt])

ValidIntake ==
    Dict([client_info |-> ValidClientInfo,
          presenting_problem |-> List(<<Txt, Txt, Txt>>),
          past_history |-> List(<<Txt>>),
          academic_occupational_functioning_level |-> List(<<Txt>>),
          reason_for_seeking_counseling |-> Txt,
          social_support_system |-> Txt])

ValidPlan == Dict([k \in {plan_keys[i] : i \in 1..Len(plan_keys)} |-> Txt])

ValidRecord ==
    Dict([thought |-> Txt, patterns |-> List(<<Txt>>), intake_form |-> ValidIntake,
          cbt_technique |-> Txt, cbt_plan |-> ValidPlan])

\* d without key k / d with key k set to x
Without(d, k) == Dict([j \in DOMAIN d.v \ {k} |-> d.v[j]])
With(d, k, x) == Dict([j \in DOMAIN d.v \cup {k} |-> IF j = k THEN x ELSE d.v[j]])

----------------------------------------------------------------------------
(* json.loads / json.dumps on token text *)

\* A JSON document is one indivisible token of the text; JsonDoc gives the
\* value json.loads produces for it.
JsonDoc ==
    [valid       |-> ValidRecord,
     valid2      |-> With(ValidRecord, "thought", Str(<<"b">>)),
     no_thought  |-> Without(ValidRecord, "thought"),
     short_pp    |-> With(ValidRecord, "intake_form",
                          With(ValidIntake, "presenting_problem", List(<<Txt, Txt>>))),
     five        |-> Num(5),
     empty_list  |-> List(<<>>)]

IsDoc(tok) == tok \in DOMAIN JsonDoc

JSONDecodeError(msg) == Exc("JSONDecodeError", msg)

\* json.loads(t): surrounding whitespace is skipped, then exactly one document
json_loads(t) ==
    LET s == Strip(t) IN
    IF s = <<>> \/ ~IsDoc(Head(s))
    THEN JSONDecodeError(<<"Expecting value: line 1 column 1 (char 0)">>)
    ELSE IF Len(s) > 1 THEN JSONDecodeError(<<"Extra data">>)
    ELSE JsonDoc[Head(s)]

CaseKeyOrder == <<"id", "name">>

\* the tokens for the characters " and \
DQ  == "<dquote>"
BSL == "<backslash>"

\* json.dumps of a str or int
DumpScalar(x) == IF x.t = "str" THEN <<DQ>> \o x.v \o <<DQ>> ELSE <<ToString(x.v)>>

RECURSIVE DumpItems(_, _)
DumpItems(d, keys) ==
    IF keys = <<>> THEN <<>>
    ELSE LET k == Head(keys)
             rest == DumpItems(d, Tail(keys))
         IN  IF k \notin DOMAIN d.v THEN rest
             ELSE <<"  ", DQ, k, DQ, ": ">> \o DumpScalar(d.v[k])
                  \o (IF rest = <<>> THEN <<>> ELSE <<",", "\n">>) \o rest

\* json.dumps(psi_case, ensure_ascii=False, indent=2) for a flat dict
json_dumps(d) == <<"{", "\n">> \o DumpItems(d, CaseKeyOrder) \o <<"\n", "}">>

----------------------------------------------------------------------------
(* _parse_json_strict *)

\* the token for the three-backquote fence marker
FENCE == <<"<fence>">>
NL == <<"\n">>

\* the fenced-block branch: drop the first line and the trailing fence
Unfence(t) ==
    LET t1 == IF Contains(t, NL) THEN AfterFirst(t, NL) ELSE <<>>
        t2 == IF Contains(t1, FENCE) THEN BeforeLast(t1, FENCE) ELSE t1
    IN  Strip(t2)

\* the parsed value, or the exception json.loads raises
_parse_json_strict(text) ==
    LET t == Strip(text) IN
    json_loads(IF StartsWith(t, FENCE) THEN Unfence(t) ELSE t)

----------------------------------------------------------------------------
(* psi_case_to_cactus *)

\* the Gateway's possible answers
Responses ==
    { <<"valid">>,
      <<"<fence>", "json", "\n", "valid2", "\n", "<fence>">>,
      <<>>,
      <<" ", "\n">>,
      <<"Sorry">>,
      <<"no_thought">>,
      <<"<fence>", "\n", "short_pp", "<fence>">>,
      <<"five">> }

PsiCases == { Dict([id |-> Str(<<"a">>)]), Dict([id |-> Str(<<"b">>), name |-> Str(<<"a">>)]) }

SystemPrompts == { <<"SYS">> }

\* an error the Gateway raises instead of answering
TransportError == Exc("APIConnectionError", <<"Connection error.">>)

\* f"{last_err}"
Format(x) == IF x.t = "NoneType" THEN <<"None">> ELSE x.v

\* variant of TryBlock: the parsed object is returned without validation
TryBlock_NoValidate(response) == _parse_json_strict(response)

\* the try block: the validated object, or the exception caught
TryBlock(response) ==
    LET obj == _parse_json_strict(response) IN
    IF obj.t = "exc" THEN obj
    ELSE LET val == _validate_cactus_shape(obj) IN
         IF val.t = "exc" THEN val ELSE obj

\* variant of NewLastErr: the first error is kept
NewLastErr_KeepFirst(old, e) == IF old.t = "NoneType" THEN Str(ErrText(e)) ELSE old

\* last_err = f"{type(e).__name__}: {e}"
NewLastErr(old, e) == Str(ErrText(e))

\* the repair prompt of an attempt after the first
repair_user(err) ==
    <<"Your previous output failed validation.\n", "ERROR:\n">> \o Format(err)
    \o <<"\n\n", "Return ONLY corrected JSON that matches the required schema exactly. No markdown.">>

\* user_prompt argument of the Gateway call of an attempt
AttemptPrompt(a, err, user_prompt) ==
    IF a = 0 THEN user_prompt
    ELSE repair_user(err) \o <<"\n\nORIGINAL PSI CASE:\n">> \o user_prompt

\* variant of LoopDone: range(max_retries)
LoopDone_OffByOne(a, mr) == a + 1 >= mr

\* range(max_retries + 1) has no value after a
LoopDone(a, mr) == a + 1 >= mr + 1

\* variant of AfterTry: a success does not leave the loop before its end
AfterTry_KeepLooping(r, a, mr) ==
    IF ~LoopDone(a, mr) THEN "loop"
    ELSE IF r.t # "exc" THEN "returned" ELSE "failed"

\* where control goes after the try block of attempt a with outcome r
AfterTry(r, a, mr) ==
    IF r.t # "exc" THEN "returned"
    ELSE IF LoopDone(a, mr) THEN "failed" ELSE "loop"

\* variant of FailedError: the last error is not reported
FailedError_NoCause(err) ==
    ValueError(<<"LLM output could not be validated after retries.">>)

\* the exception raised after the loop
FailedError(err) ==
    ValueError(<<"LLM output could not be validated after retries. Last error: ">> \o Format(err))

ConvIdle ==
    /\ psi_case = Dict([id |-> Str(<<"a">>)])
    /\ system_prompt = <<"SYS">>
    /\ max_retries = 0
    /\ attempt = 0
    /\ last_err = None
    /\ conv_pc = "idle"
    /\ conv_out = None
    /\ calls = <<>>
    /\ responses = <<>>

ConvStart ==
    /\ psi_case \in PsiCases
    /\ system_prompt \in SystemPrompts
    /\ max_retries \in 0..MaxRetries
    /\ attempt = 0
    /\ last_err = None
    /\ conv_pc = "loop"
    /\ conv_out = None
    /\ calls = <<>>
    /\ responses = <<>>

\* one iteration of the loop in which the Gateway answers `response`
\* (with the raise after the loop when it was the last iteration)
Attempt(response) ==
    /\ conv_pc = "loop"
    /\ LET user_prompt == json_dumps(psi_case)
           r == TryBlock(response)
           pc2 == AfterTry(r, attempt, max_retries)
           err2 == IF r.t = "exc" THEN NewLastErr(last_err, r) ELSE last_err
       IN  /\ calls' = Append(calls, [system_prompt |-> system_prompt,
                                      user_prompt |-> AttemptPrompt(attempt, last_err, user_prompt)])
           /\ responses' = Append(responses, response)
           /\ last_err' = err2
           /\ conv_pc' = pc2
           /\ attempt' = IF pc2 = "loop" THEN attempt + 1 ELSE attempt
           /\ conv_out' = CASE pc2 = "returned" -> r
                            [] pc2 = "failed"   -> FailedError(err2)
                            [] OTHER            -> conv_out
    /\ UNCHANGED <<psi_case, system_prompt, max_retries>>
    /\ UNCHANGED <<phaseVars, sessVars, fnVars>>

\* variant of AttemptRaises: the Gateway call sits inside the try block, so
\* its exception counts as a failed attempt
AttemptRaises_Caught ==
    /\ conv_pc = "loop"
    /\ LET pc2 == IF LoopDone(attempt, max_retries) THEN "failed" ELSE "loop"
           err2 == Str(ErrText(TransportError))
       IN  /\ calls' = Append(calls, [system_prompt |-> system_prompt,
                  user_prompt |-> AttemptPrompt(attempt, last_err, json_dumps(psi_case))])
           /\ last_err' = err2
           /\ conv_pc' = pc2
           /\ attempt' = IF pc2 = "loop" THEN attempt + 1 ELSE attempt
           /\ conv_out' = IF pc2 = "failed" THEN FailedError(err2) ELSE conv_out
    /\ UNCHANGED <<psi_case, system_prompt, max_retries, responses>>
    /\ UNCHANGED <<phaseVars, sessVars, fnVars>>

\* one iteration of the loop in which the Gateway call raises
AttemptRaises ==
    /\ conv_pc = "loop"
    /\ calls' = Append(calls, [system_prompt |-> system_prompt,
                               user_prompt |-> AttemptPrompt(attempt, last_err, json_dumps(psi_case))])
    /\ conv_pc' = "transport"
    /\ conv_out' = TransportError
    /\ UNCHANGED <<psi_case, system_prompt, max_retries, attempt, last_err, responses>>
    /\ UNCHANGED <<phaseVars, sessVars, fnVars>>

ConvNext == (\E response \in Responses : Attempt(response)) \/ AttemptRaises

----------------------------------------------------------------------------
(* helpers.py: parse_trust_score, next_phase *)

PHASE_UPGRADE_AT ==
    [trust_building |-> 3, case_conceptualization |-> 4, solution_exploration |-> 999]

\* the value a function returns
Ret(x) == [t |-> "ret", v |-> x]

\* \w of the regular expression: letters, digits, underscore
IsWordChar(c) == c \in {"a", "_", "0", "1", "2", "3", "4", "5", "6", "7", "8", "9"}

DigitValue == [c \in {"1", "2", "3", "4", "5"} |-> CASE c = "1" -> 1 [] c = "2" -> 2
                                                       [] c = "3" -> 3 [] c = "4" -> 4
                                                       [] c = "5" -> 5]

\* positions where \b([1-5])\b matches
TrustMatches(text) ==
    {i \in 1..Len(text) :
        /\ text[i] \in DOMAIN DigitValue
        /\ (i = 1 \/ ~IsWordChar(text[i - 1]))
        /\ (i = Len(text) \/ ~IsWordChar(text[i + 1]))}

\* re.search(r"\b([1-5])\b", text): the first match as an int, else None
parse_trust_score(text) ==
    IF TrustMatches(text) = {} THEN None
    ELSE Num(DigitValue[text[Min(TrustMatches(text))]])

\* `openness >= n`: a bool, or the TypeError of comparing None with an int
CompareGe(openness, n) ==
    IF openness.t = "NoneType"
    THEN TypeError(<<"'>=' not supported between instances of 'NoneType' and 'int'">>)
    ELSE Ret(openness.v >= n)

\* openness is an int and at least n
IntGe(openness, n) == openness.t = "int" /\ openness.v >= n

\* variant of next_phase: a low score sends the dialogue back a phase
next_phase_Regress(cur, openness) ==
    IF cur = "trust_building" /\ IntGe(openness, PHASE_UPGRADE_AT["trust_building"])
    THEN Ret("case_conceptualization")
    ELSE IF cur = "case_conceptualization" /\ IntGe(openness, PHASE_UPGRADE_AT["case_conceptualization"])
    THEN Ret("solution_exploration")
    ELSE IF cur = "case_conceptualization" /\ ~IntGe(openness, PHASE_UPGRADE_AT["trust_building"])
    THEN Ret("trust_building")
    ELSE Ret(cur)

\* variant of next_phase: strict comparison with the thresholds
next_phase_Strict(cur, openness) ==
    IF cur = "trust_building" /\ IntGe(openness, PHASE_UPGRADE_AT["trust_building"] + 1)
    THEN Ret("case_conceptualization")
    ELSE IF cur = "case_conceptualization" /\ IntGe(openness, PHASE_UPGRADE_AT["case_conceptualization"] + 1)
    THEN Ret("solution_exploration")
    ELSE Ret(cur)

\* variant of next_phase: the table decides for every phase, the last one
\* starting over when its threshold is reached
next_phase_TableDriven(cur, openness) ==
    IF cur \in DOMAIN PHASE_UPGRADE_AT /\ IntGe(openness, PHASE_UPGRADE_AT[cur])
    THEN Ret(CASE cur = "trust_building" -> "case_conceptualization"
               [] cur = "case_conceptualization" -> "solution_exploration"
               [] OTHER -> "trust_building")
    ELSE Ret(cur)

\* the phase returned, or the exception raised by a comparison
next_phase(cur, openness) ==
    LET c1 == CompareGe(openness, PHASE_UPGRADE_AT["trust_building"])
        c2 == CompareGe(openness, PHASE_UPGRADE_AT["case_conceptualization"])
    IN  IF cur = "trust_building" /\ c1.t = "exc" THEN c1
        ELSE IF cur = "trust_building" /\ c1.v THEN Ret("case_conceptualization")
        ELSE IF cur = "case_conceptualization" /\ c2.t = "exc" THEN c2
        ELSE IF cur = "case_conceptualization" /\ c2.v THEN Ret("solution_exploration")
        ELSE Ret(cur)

Phases == {"trust_building", "case_conceptualization", "solution_exploration"}

\* arguments given as `cur`: the phases and one value that is none of them
PhaseInputs == Phases \cup {"wrap_up"}

\* arguments given as `openness`
OpennessInputs == {Num(n) : n \in 0..MaxOpenness} \cup {Num(999), Num(1000)}

TrustChars == {"a", " ", "4", "7"}

RECURSIVE TextsUpTo(_)
TextsUpTo(n) ==
    IF n = 0 THEN {<<>>}
    ELSE LET shorter == TextsUpTo(n - 1) IN
         shorter \cup {Append(t, c) : t \in shorter, c \in TrustChars}

TrustTexts == TextsUpTo(MaxTextLen)

NoEval == [done |-> FALSE, text |-> <<>>, cur |-> "", openness |-> None, ret |-> None]

PhaseIdle ==
    /\ phase = "trust_building"
    /\ phase_log = <<>>
    /\ phase_pc = "idle"
    /\ last_eval = NoEval

PhaseStart ==
    /\ phase \in PhaseInputs
    /\ phase_log = <<phase>>
    /\ phase_pc = "running"
    /\ last_eval = NoEval

\* phase = next_phase(phase, openness): the values of the phase variables
\* afterwards; an exception leaves the dialogue loop
Evaluated(text, openness) ==
    LET r == next_phase(phase, openness) IN
    [last_eval |-> [done |-> TRUE, text |-> text, cur |-> phase,
                    openness |-> openness, ret |-> r],
     phase     |-> IF r.t = "exc" THEN phase ELSE r.v,
     phase_log |-> IF r.t = "exc" THEN phase_log ELSE Append(phase_log, r.v),
     phase_pc  |-> IF r.t = "exc" THEN "crashed" ELSE phase_pc]

\* the phase is re-evaluated with a given openness
EvalOpenness ==
    /\ phase_pc = "running"
    /\ Len(phase_log) <= MaxEvals
    /\ \E o \in OpennessInputs :
         LET n == Evaluated(<<>>, o) IN
         /\ last_eval' = n.last_eval
         /\ phase' = n.phase
         /\ phase_log' = n.phase_log
         /\ phase_pc' = n.phase_pc
    /\ UNCHANGED <<convVars, sessVars, fnVars>>

\* the phase is re-evaluated with the score parsed from an evaluator's text
EvalTrustText ==
    /\ phase_pc = "running"
    /\ Len(phase_log) <= MaxEvals
    /\ \E text \in TrustTexts :
         LET n == Evaluated(text, parse_trust_score(text)) IN
         /\ last_eval' = n.last_eval
         /\ phase' = n.phase
         /\ phase_log' = n.phase_log
         /\ phase_pc' = n.phase_pc
    /\ UNCHANGED <<convVars, sessVars, fnVars>>

PhaseNext == EvalOpenness \/ EvalTrustText

----------------------------------------------------------------------------
(* camel_agent: CBTPlannerAgent, CounselorAgent, CamelCounselingSession *)

\* bool(x) of None or a str
Truthy(x) == x.t # "NoneType" /\ x.v # <<>>

\* s.split(pat)[0] and s.split(pat)[-1]
SplitHead(s, pat) == IF Contains(s, pat) THEN BeforeFirst(s, pat) ELSE s
SplitLast(s, pat) == IF Contains(s, pat) THEN SubSeq(s, Max(Occurs(s, pat)) + Len(pat), Len(s)) ELSE s

PLAN_DELIM == <<"Counseling", " ", "planning:", "\n">>
CBT_DELIM  == <<"\n", "CBT">>

\* raw.split("Counseling")[0].replace("\n", "").strip() or None
ParseTechnique(raw) ==
    LET t == Strip(Replace(SplitHead(raw, <<"Counseling">>), "\n", <<>>)) IN
    IF t = <<>> THEN None ELSE Str(t)

\* raw.split("Counseling planning:\n", 1)[1].split("\nCBT", 1)[0].strip(),
\* with the fallback of the except branch
ParsePlan(raw) ==
    IF Contains(raw, PLAN_DELIM)
    THEN Str(Strip(SplitHead(AfterFirst(raw, PLAN_DELIM), CBT_DELIM)))
    ELSE IF raw # <<>> THEN Str(Strip(raw)) ELSE None

\* CBTPlannerAgent.generate_plan, after the Gateway has answered raw
generate_plan(raw) == [technique |-> ParseTechnique(raw), plan |-> ParsePlan(raw)]

MESSAGE_KEY == <<"'message':">>

\* CounselorAgent.next_utterance, after the Gateway has answered raw
next_utterance(raw) ==
    LET t1 == IF Contains(raw, MESSAGE_KEY)
              THEN SplitHead(AfterFirst(raw, MESSAGE_KEY), <<", {">>)
              ELSE raw
        t2 == SplitLast(t1, <<"Counselor:">>)
    IN  Strip(Replace(Replace(Replace(t2, "\n", <<" ">>), BSL, <<>>), DQ, <<>>))

\* answers of the Gateway to the planning prompt
PlanRaws ==
    { <<"Decatastrophizing", "\n", "\n", "Counseling", " ", "planning:", "\n",
        "1.", " ", "plan", "\n", "CBT", " ", "technique">>,
      <<"free", " ", "text">>,
      <<"Counseling", " ", "planning:", "\n", " ">>,
      <<>> }

\* answers of the Gateway to the response prompt
CounselorRaws ==
    { <<"How", " ", "are", " ", "you?">>,
      <<"Counselor:", " ", DQ, "Tell", "\n", "me", BSL, DQ, "\n">>,
      <<"{", "'message':", " ", "Go", " ", "on", ", {", "'role':">> }

GatewayError == Exc("APIConnectionError", <<"Connection error.">>)

PlanOutcomes == {Str(r) : r \in PlanRaws} \cup {GatewayError}
CounselorOutcomes == {Str(r) : r \in CounselorRaws} \cup {GatewayError}

IntakeInputs == {Str(<<>>), Str(<<"Name: ", "Laura">>)}
ReasonInputs == {Str(<<>>), Str(<<"I", " ", "feel", " ", "anxious">>)}
FirstMessages == {<<>>, <<"I'm", " ", "stressed">>}
ClientMessages == {<<"hello">>, <<"I", " ", "worry">>}

greeting == <<"Hi, it's nice to meet you. How can I assist you today?">>

Entry(role, message) == [role |-> role, message |-> message]

\* the fields of the session as one record
Session == [intake_form |-> intake_form, reason |-> reason,
            cbt_technique |-> cbt_technique, cbt_plan |-> cbt_plan,
            history |-> history]

NoArgs == [intake_form |-> None, reason |-> None, first_client_message |-> <<>>,
           client_message |-> <<>>]

\* the outcome of an operation: the fields afterwards, what it returned or
\* raised, and the Gateway calls it made with their answers
Outcome(s, ret, pcalls, ccalls, pout, cout) ==
    [s |-> s, ret |-> ret, pcalls |-> pcalls, ccalls |-> ccalls,
     pout |-> pout, cout |-> cout]

\* variant of ensure_plan: the fields are not checked before planning
ensure_plan_NoPrecheck(s, pout) ==
    IF Truthy(s.cbt_plan)
    THEN Outcome(s, Ret(None), <<>>, <<>>, None, None)
    ELSE LET call == [client_information |-> s.intake_form, reason |-> s.reason,
                      history |-> s.history]
         IN  IF pout.t = "exc"
             THEN Outcome(s, pout, <<call>>, <<>>, pout, None)
             ELSE LET g == generate_plan(pout.v) IN
                  Outcome([s EXCEPT !.cbt_technique = g.technique,
                                    !.cbt_plan = IF Truthy(g.plan) THEN g.plan ELSE Str(<<>>)],
                          Ret(None), <<call>>, <<>>, pout, None)

\* ensure_plan on fields s, when the planning call would be answered pout
ensure_plan(s, pout) ==
    IF ~Truthy(s.intake_form) \/ ~Truthy(s.reason)
    THEN Outcome(s, ValueError(<<"intake_form and reason must be set before planning.">>),
                 <<>>, <<>>, None, None)
    ELSE IF Truthy(s.cbt_plan)
    THEN Outcome(s, Ret(None), <<>>, <<>>, None, None)
    ELSE LET call == [client_information |-> s.intake_form, reason |-> s.reason,
                      history |-> s.history]
         IN  IF pout.t = "exc"
             THEN Outcome(s, pout, <<call>>, <<>>, pout, None)
             ELSE LET g == generate_plan(pout.v) IN
                  Outcome([s EXCEPT !.cbt_technique = g.technique,
                                    !.cbt_plan = IF Truthy(g.plan) THEN g.plan ELSE Str(<<>>)],
                          Ret(None), <<call>>, <<>>, pout, None)

\* the history start() seeds
SeedHistory(first_client_message) ==
    <<Entry("Counselor", greeting)>>
    \o (IF first_client_message # <<>> THEN <<Entry("Client", first_client_message)>> ELSE <<>>)

\* start(intake, rsn, first_client_message)
start(s, intake, rsn, first_client_message, pout) ==
    ensure_plan([s EXCEPT !.intake_form = intake, !.reason = rsn,
                          !.history = SeedHistory(first_client_message)], pout)

\* variant of HistoryAfterStep: the history is restarted with the new turn
HistoryAfterStep_Replace(h, client_message, reply) ==
    <<Entry("Client", client_message), Entry("Counselor", reply)>>

\* variant of HistoryAfterStep: the client message is not recorded
HistoryAfterStep_ReplyOnly(h, client_message, reply) ==
    Append(h, Entry("Counselor", reply))

\* the two appends of step()
HistoryAfterStep(h, client_message, reply) ==
    Append(Append(h, Entry("Client", client_message)), Entry("Counselor", reply))

\* step(client_message)
step(s, client_message, pout, cout) ==
    IF ~Truthy(s.intake_form) \/ ~Truthy(s.reason)
    THEN Outcome(s, ValueError(<<"Call start() or set intake_form/reason first.">>),
                 <<>>, <<>>, None, None)
    ELSE LET e == IF ~Truthy(s.cbt_plan) THEN ensure_plan(s, pout)
                  ELSE Outcome(s, Ret(None), <<>>, <<>>, None, None)
         IN  IF e.ret.t = "exc" THEN e
             ELSE LET h1 == Append(e.s.history, Entry("Client", client_message))
                      call == [client_information |-> e.s.intake_form, reason |-> e.s.reason,
                               cbt_plan |-> IF Truthy(e.s.cbt_plan) THEN e.s.cbt_plan ELSE Str(<<>>),
                               history |-> h1]
                  IN  IF cout.t = "exc"
                      THEN Outcome([e.s EXCEPT !.history = h1], cout, e.pcalls, <<call>>,
                                   e.pout, cout)
                      ELSE LET reply == next_utterance(cout.v) IN
                           Outcome([e.s EXCEPT !.history =
                                        HistoryAfterStep(e.s.history, client_message, reply)],
                                   Ret(Str(reply)), e.pcalls, <<call>>, e.pout, cout)

NoOp == [op |-> "none", n |-> 0, args |-> NoArgs, pre |-> [intake_form |-> None,
         reason |-> None, cbt_technique |-> None, cbt_plan |-> None, history |-> <<>>],
         ret |-> None, pout |-> None, cout |-> None, pcalls |-> 0, ccalls |-> 0]

\* the session after construction
SessStart ==
    /\ intake_form = None
    /\ reason = None
    /\ cbt_technique = None
    /\ cbt_plan = None
    /\ history = <<>>
    /\ planner_log = <<>>
    /\ counselor_log = <<>>
    /\ last_op = NoOp

\* the variables after an operation with outcome o
Apply(name, args, o) ==
    /\ intake_form' = o.s.intake_form
    /\ reason' = o.s.reason
    /\ cbt_technique' = o.s.cbt_technique
    /\ cbt_plan' = o.s.cbt_plan
    /\ history' = o.s.history
    /\ planner_log' = planner_log \o o.pcalls
    /\ counselor_log' = counselor_log \o o.ccalls
    /\ last_op' = [op |-> name, n |-> last_op.n + 1, args |-> args, pre |-> Session,
                   ret |-> o.ret, pout |-> o.pout, cout |-> o.cout,
                   pcalls |-> Len(o.pcalls), ccalls |-> Len(o.ccalls)]

DoStart ==
    /\ last_op.n < MaxOps
    /\ \E intake \in IntakeInputs, rsn \in ReasonInputs, first \in FirstMessages,
          pout \in PlanOutcomes :
         Apply("start", [NoArgs EXCEPT !.intake_form = intake, !.reason = rsn,
                                       !.first_client_message = first],
               start(Session, intake, rsn, first, pout))
    /\ UNCHANGED <<convVars, phaseVars, fnVars>>

DoEnsurePlan ==
    /\ last_op.n < MaxOps
    /\ \E pout \in PlanOutcomes : Apply("ensure_plan", NoArgs, ensure_plan(Session, pout))
    /\ UNCHANGED <<convVars, phaseVars, fnVars>>

DoStep ==
    /\ last_op.n < MaxOps
    /\ \E m \in ClientMessages, pout \in PlanOutcomes, cout \in CounselorOutcomes :
         Apply("step", [NoArgs EXCEPT !.client_message = m], step(Session, m, pout, cout))
    /\ UNCHANGED <<convVars, phaseVars, fnVars>>

SessNext == DoStart \/ DoEnsurePlan \/ DoStep

SessIdle == SessStart

----------------------------------------------------------------------------
(* trust_eval_interval (helpers.py) *)

\* longest resistance-level text drawn, in tokens
MaxLevelLen == 2

\* str.lower() on one token
LowerToken(c) ==
    CASE c = "Beginner"     -> "beginner"
      [] c = "INTERMEDIATE" -> "intermediate"
      [] c = "Advanced"     -> "advanced"
      [] c = "Expert"       -> "expert"
      [] OTHER              -> c

\* str.lower()
Lower(s) == [i \in 1..Len(s) |-> LowerToken(s[i])]

\* variant of trust_eval_interval: without the `or ""` guard, .strip() is
\* called on the argument itself
trust_eval_interval_NoGuard(resistance_level) ==
    IF resistance_level.t # "str"
    THEN Exc("AttributeError", <<"'", resistance_level.t, "' object has no attribute 'strip'">>)
    ELSE LET lvl == Lower(Strip(resistance_level.v)) IN
         IF lvl = <<"beginner">> THEN Ret(Num(2))
         ELSE IF lvl = <<"intermediate">> THEN Ret(Num(4))
         ELSE IF lvl = <<"advanced">> THEN Ret(Num(6))
         ELSE Ret(Num(2))

\* trust_eval_interval(resistance_level), for a str or None argument
trust_eval_interval(resistance_level) ==
    LET lvl == Lower(Strip(IF Truthy(resistance_level) THEN resistance_level.v ELSE <<>>)) IN
    IF lvl = <<"beginner">> THEN Ret(Num(2))
    ELSE IF lvl = <<"intermediate">> THEN Ret(Num(4))
    ELSE IF lvl = <<"advanced">> THEN Ret(Num(6))
    ELSE Ret(Num(2))

\* the tokens resistance levels are written with
LevelTokens == {" ", "\n", "beginner", "Beginner", "intermediate", "INTERMEDIATE",
                "advanced", "Advanced", "Expert"}

RECURSIVE LevelTextsUpTo(_)
LevelTextsUpTo(n) ==
    IF n = 0 THEN {<<>>}
    ELSE LET shorter == LevelTextsUpTo(n - 1) IN
         shorter \cup {Append(t, c) : t \in shorter, c \in LevelTokens}

\* the arguments tried: None and every text of up to MaxLevelLen tokens
LevelInputs == {None} \cup {Str(t) : t \in LevelTextsUpTo(MaxLevelLen)}

IntervalStart ==
    /\ fn = "trust_eval_interval"
    /\ fn_args \in [resistance_level : LevelInputs]
    /\ fn_out = <<>>

CallInterval ==
    /\ fn = "trust_eval_interval"
    /\ fn_out = <<>>
    /\ fn_out' = trust_eval_interval(fn_args.resistance_level)
    /\ UNCHANGED <<fn, fn_args>>
    /\ UNCHANGED <<convVars, phaseVars, sessVars>>

IntervalNext == CallInterval

----------------------------------------------------------------------------
(* get_case_by_id (psi_to_cactus-checkpoint.py) *)

\* longest short case list drawn
MaxCases == 2

\* number of cases in the long case list
NumLongCases == 22

\* `available[:20]`
AvailableShown == 20

RECURSIVE Digits(_)
\* str(n) for n >= 0, one token per digit
Digits(n) == IF n < 10 THEN <<ToString(n)>> ELSE Digits(n \div 10) \o <<ToString(n % 10)>>

\* str(x) for a str, an int >= 0 or None
PyStr(x) ==
    CASE x.t = "str"      -> x.v
      [] x.t = "int"      -> Digits(x.v)
      [] x.t = "NoneType" -> <<"N", "o", "n", "e">>

\* d.get(k, default)
Get(d, k, default) == IF k \in DOMAIN d.v THEN d.v[k] ELSE default

\* ord(c) of the characters that occur in identifiers
Ord(c) ==
    CASE c = " " -> 32
      [] c = "0" -> 48 [] c = "1" -> 49 [] c = "2" -> 50 [] c = "3" -> 51
      [] c = "4" -> 52 [] c = "5" -> 53 [] c = "6" -> 54 [] c = "7" -> 55
      [] c = "8" -> 56 [] c = "9" -> 57
      [] c = "A" -> 65 [] c = "a" -> 97 [] c = "b" -> 98

RECURSIVE StrLess(_, _)
\* a < b on str: lexicographic by code point
StrLess(a, b) ==
    IF b = <<>> THEN FALSE
    ELSE IF a = <<>> THEN TRUE
    ELSE IF Head(a) = Head(b) THEN StrLess(Tail(a), Tail(b))
    ELSE Ord(Head(a)) < Ord(Head(b))

RECURSIVE sorted(_)
\* sorted(S) for a set S of str
sorted(S) ==
    IF S = {} THEN <<>>
    ELSE LET m == CHOOSE x \in S : \A y \in S \ {x} : StrLess(x, y)
         IN  <<m>> \o sorted(S \ {m})

\* s[:n]
Take(s, n) == SubSeq(s, 1, Min({n, Len(s)}))

RECURSIVE ReprItems(_)
ReprItems(l) ==
    IF l = <<>> THEN <<>>
    ELSE <<"'">> \o Head(l) \o <<"'">>
         \o (IF Len(l) > 1 THEN <<", ">> ELSE <<>>) \o ReprItems(Tail(l))

\* repr of a list of str (no quotes, backslashes or control characters inside)
ReprList(l) == <<"[">> \o ReprItems(l) \o <<"]">>

\* {str(c.get("id")) for c in cases if c.get("id") is not None}, sorted
Available(cases) ==
    sorted({PyStr(cases[i].v["id"]) :
              i \in {j \in 1..Len(cases) : Get(cases[j], "id", None) # None}})

\* the KeyError of line 49; msg is its argument
NotFound(case_id, shown) ==
    Exc("KeyError", <<"Case id '">> \o PyStr(case_id)
                    \o <<"' not found. Available ids include: ">>
                    \o ReprList(shown) \o <<" ...">>)

\* variant of get_case_by_id: the identifiers are compared as they are
get_case_by_id_NoStrip(cases, case_id) ==
    LET hits == {i \in 1..Len(cases) :
                   PyStr(Get(cases[i], "id", Str(<<>>))) = PyStr(case_id)}
    IN  IF hits # {}
        THEN Ret(cases[CHOOSE i \in hits : \A j \in hits : i <= j])
        ELSE NotFound(case_id, Take(Available(cases), AvailableShown))

\* get_case_by_id(cases, case_id)
get_case_by_id(cases, case_id) ==
    LET hits == {i \in 1..Len(cases) :
                   Strip(PyStr(Get(cases[i], "id", Str(<<>>)))) = Strip(PyStr(case_id))}
    IN  IF hits # {}
        THEN Ret(cases[CHOOSE i \in hits : \A j \in hits : i <= j])
        ELSE NotFound(case_id, Take(Available(cases), AvailableShown))

Case(id, name) == Dict([id |-> id, name |-> Str(<<name>>)])

\* the cases short lists are made of: the same identifier with and without
\* surrounding blanks, an int, a null and a missing identifier
SmallCases ==
    { Case(Str(<<"a">>), "first"), Case(Str(<<" ", "a", " ">>), "padded"),
      Case(Str(<<"b", "a">>), "other"), Case(Num(7), "int"),
      Case(None, "null"), Dict([name |-> Str(<<"anonymous">>)]) }

RECURSIVE CaseListsUpTo(_)
CaseListsUpTo(n) ==
    IF n = 0 THEN {<<>>}
    ELSE LET shorter == CaseListsUpTo(n - 1) IN
         shorter \cup {Append(l, c) : l \in shorter, c \in SmallCases}

\* a long list: int identifiers in an order that is neither the numeric nor
\* the string order, the first one twice
LongCases ==
    [i \in 1..NumLongCases |->
        Case(Num(IF i = NumLongCases THEN 7 ELSE (i * 7) % (NumLongCases + 7)), "long")]

CaseLists == CaseListsUpTo(MaxCases) \cup {LongCases}

CaseIds ==
    { Str(<<"a">>), Str(<<" ", "a">>), Str(<<"a", " ", " ">>), Str(<<"A">>),
      Str(<<"b", "a">>), Str(<<"a", "b">>), Str(<<>>), Str(<<" ">>),
      Str(<<"7">>), Num(7), Str(<<"N", "o", "n", "e">>), Str(<<"1", "4">>) }

LookupStart ==
    /\ fn = "get_case_by_id"
    /\ fn_args \in [cases : CaseLists, case_id : CaseIds]
    /\ fn_out = <<>>

CallLookup ==
    /\ fn = "get_case_by_id"
    /\ fn_out = <<>>
    /\ fn_out' = get_case_by_id(fn_args.cases, fn_args.case_id)
    /\ UNCHANGED <<fn, fn_args>>
    /\ UNCHANGED <<convVars, phaseVars, sessVars>>

LookupNext == CallLookup

----------------------------------------------------------------------------
(* _validate_cactus_shape applied to records: conforming records and      *)
(* records with one or two defects                                         *)

\* most items a list field of a conforming record has beyond its minimum
MaxExtraItems == 1

Blank == Str(<<" ">>)

RECURSIVE Repeat(_, _)
\* [x] * n
Repeat(x, n) == IF n = 0 THEN <<>> ELSE <<x>> \o Repeat(x, n - 1)

\* conforming records: the text, the kind of number and the list lengths vary
SchemaRecords ==
    { Dict([thought |-> th,
            patterns |-> List(Repeat(Txt, 1 + np)),
            intake_form |->
                With(With(ValidIntake, "client_info", With(ValidClientInfo, "age", age)),
                     "presenting_problem", List(Repeat(Txt, 3 + npp))),
            cbt_technique |-> Txt,
            cbt_plan |-> ValidPlan]) :
        th \in {Txt, Str(<<" ", "b", "\n">>)},
        age \in {Num(45), Num(0), Flt(305)},
        np \in 0..MaxExtraItems,
        npp \in 0..MaxExtraItems }

\* a defect: what is done (kind) to which field (f); n is the new length
\* for "short_list"
Mut(kind, f, n) == [kind |-> kind, f |-> f, n |-> n]

Range(seq) == {seq[i] : i \in 1..Len(seq)}

ListFieldNames == {list_fields[i][1] : i \in 1..Len(list_fields)}

MinLen(f) == (CHOOSE p \in Range(list_fields) : p[1] = f)[2]

IntakeStrFields == {"reason_for_seeking_counseling", "social_support_system"}

Mutations ==
    {Mut("drop_top", f, 0) : f \in Range(required_top)}
    \cup {Mut("blank_top", f, 0) : f \in {"thought", "cbt_technique"}}
    \cup {Mut("empty_patterns", "patterns", 0), Mut("bad_pattern", "patterns", 0)}
    \cup {Mut("not_object", f, 0) : f \in {"intake_form", "cbt_plan"}}
    \cup {Mut("drop_intake", "client_info", 0)}
    \cup {Mut(k, f, 0) : k \in {"drop_ci_key", "bad_ci_key"}, f \in Range(ci_required)}
    \cup {Mut("drop_intake", f, 0) : f \in ListFieldNames \cup IntakeStrFields}
    \cup UNION {{Mut("short_list", f, n) : n \in 0..(MinLen(f) - 1)} : f \in ListFieldNames}
    \cup {Mut("bad_item", f, 0) : f \in ListFieldNames}
    \cup {Mut("blank_intake", f, 0) : f \in IntakeStrFields}
    \cup {Mut(k, f, 0) : k \in {"drop_plan_key", "blank_plan_key"}, f \in Range(plan_keys)}
    \cup {Mut("extra_plan_key", "6", 0)}

HasDict(d, k) == d.t = "dict" /\ k \in DOMAIN d.v /\ d.v[k].t = "dict"

\* l with its last item replaced by x
WithLast(l, x) == IF l = <<>> THEN l ELSE [l EXCEPT ![Len(l)] = x]

\* the record rec with defect m; rec itself where the field to change is
\* not there any more
Mutate(rec, m) ==
    LET has(f) == f \in DOMAIN rec.v
        hasI == HasDict(rec, "intake_form")
        I == rec.v["intake_form"]
        hasC == hasI /\ HasDict(I, "client_info")
        C == I.v["client_info"]
        hasL == hasI /\ m.f \in DOMAIN I.v /\ I.v[m.f].t = "list"
        hasP == HasDict(rec, "cbt_plan")
        P == rec.v["cbt_plan"]
        intake(x) == With(rec, "intake_form", x)
    IN  CASE m.kind = "drop_top" -> Without(rec, m.f)
          [] m.kind = "blank_top" /\ has(m.f) -> With(rec, m.f, Blank)
          [] m.kind = "empty_patterns" /\ has(m.f) -> With(rec, m.f, List(<<>>))
          [] m.kind = "bad_pattern" /\ has(m.f) /\ rec.v[m.f].t = "list" ->
                With(rec, m.f, List(WithLast(rec.v[m.f].v, Blank)))
          [] m.kind = "not_object" /\ has(m.f) -> With(rec, m.f, Txt)
          [] m.kind = "drop_intake" /\ hasI -> intake(Without(I, m.f))
          [] m.kind = "drop_ci_key" /\ hasC -> intake(With(I, "client_info", Without(C, m.f)))
          [] m.kind = "bad_ci_key" /\ hasC /\ m.f \in DOMAIN C.v ->
                intake(With(I, "client_info",
                            With(C, m.f, IF m.f = "age" THEN Str(<<"4", "5">>) ELSE Blank)))
          [] m.kind = "short_list" /\ hasL -> intake(With(I, m.f, List(Take(I.v[m.f].v, m.n))))
          [] m.kind = "bad_item" /\ hasL -> intake(With(I, m.f, List(WithLast(I.v[m.f].v, Blank))))
          [] m.kind = "blank_intake" /\ hasI /\ m.f \in DOMAIN I.v -> intake(With(I, m.f, Blank))
          [] m.kind = "drop_plan_key" /\ hasP -> With(rec, "cbt_plan", Without(P, m.f))
          [] m.kind = "blank_plan_key" /\ hasP /\ m.f \in DOMAIN P.v ->
                With(rec, "cbt_plan", With(P, m.f, Blank))
          [] m.kind = "extra_plan_key" /\ hasP -> With(rec, "cbt_plan", With(P, m.f, Txt))
          [] OTHER -> rec

RECURSIVE MutateAll(_, _)
MutateAll(rec, ms) == IF ms = <<>> THEN rec ELSE MutateAll(Mutate(rec, Head(ms)), Tail(ms))

Index(seq, x) == CHOOSE i \in 1..Len(seq) : seq[i] = x

\* where in the function the check that a defect trips stands: the source
\* line, then the iteration of the loop on that line
CheckPosition(m) ==
    CASE m.kind = "drop_top" -> 7400 + Index(required_top, m.f)
      [] m.kind = "blank_top" /\ m.f = "thought" -> 7700
      [] m.kind = "empty_patterns" -> 8000
      [] m.kind = "bad_pattern" -> 8200
      [] m.kind = "not_object" /\ m.f = "intake_form" -> 8600
      [] m.kind = "drop_intake" /\ m.f = "client_info" -> 8900
      [] m.kind \in {"drop_ci_key", "bad_ci_key"} -> 9300 + Index(ci_required, m.f)
      [] m.kind \in {"drop_intake", "short_list"} /\ m.f \in ListFieldNames ->
             10900 + 10 * Index(list_fields, <<m.f, MinLen(m.f)>>)
      [] m.kind = "bad_item" -> 10900 + 10 * Index(list_fields, <<m.f, MinLen(m.f)>>) + 1
      [] m.f = "reason_for_seeking_counseling" -> 11400
      [] m.f = "social_support_system" -> 11700
      [] m.kind = "blank_top" /\ m.f = "cbt_technique" -> 12000
      [] m.kind = "not_object" /\ m.f = "cbt_plan" -> 12400
      [] m.kind \in {"drop_plan_key", "blank_plan_key"} -> 12700 + Index(plan_keys, m.f)
      [] m.kind = "extra_plan_key" -> 12900

\* no defect, one defect, or two defects that trip different checks,
\* applied in the order of their checks
MutationLists ==
    {<<>>} \cup {<<m>> : m \in Mutations}
    \cup {p \in Mutations \X Mutations : CheckPosition(p[1]) < CheckPosition(p[2])}

ValidateStart ==
    /\ fn = "_validate_cactus_shape"
    /\ fn_args \in {[base |-> b, muts |-> ms, obj |-> MutateAll(b, ms)] :
                      b \in SchemaRecords, ms \in MutationLists}
    /\ fn_out = <<>>

CallValidate ==
    /\ fn = "_validate_cactus_shape"
    /\ fn_out = <<>>
    /\ fn_out' = _validate_cactus_shape(fn_args.obj)
    /\ UNCHANGED <<fn, fn_args>>
    /\ UNCHANGED <<convVars, phaseVars, sessVars>>

ValidateNext == CallValidate

----------------------------------------------------------------------------
(* generate_plan applied to planning answers *)

\* longest planning answer drawn, in tokens, besides the ones in PlanRaws
MaxPlanLen == 4

\* the tokens planning answers are written with: the markers the parser
\* looks for, a technique of the prompt's list, an ordinary word
PlanTokens == {"Counseling", " ", "planning:", "\n", "CBT", "Decatastrophizing", "text"}

RECURSIVE PlanTextsUpTo(_)
PlanTextsUpTo(n) ==
    IF n = 0 THEN {<<>>}
    ELSE LET shorter == PlanTextsUpTo(n - 1) IN
         shorter \cup {Append(t, c) : t \in shorter, c \in PlanTokens}

PlanAnswers == PlanRaws \cup PlanTextsUpTo(MaxPlanLen)

PlanParseStart ==
    /\ fn = "generate_plan"
    /\ fn_args \in [raw : PlanAnswers]
    /\ fn_out = <<>>

CallGeneratePlan ==
    /\ fn = "generate_plan"
    /\ fn_out = <<>>
    /\ fn_out' = Ret(generate_plan(fn_args.raw))
    /\ UNCHANGED <<fn, fn_args>>
    /\ UNCHANGED <<convVars, phaseVars, sessVars>>

PlanParseNext == CallGeneratePlan

----------------------------------------------------------------------------
(* trim_camel_history (helpers.py) *)

\* longest history drawn
MaxHistLen == 4

\* largest keep_last drawn
MaxKeep == 3

\* s[start:] with Python's reading of a negative or too large start
SliceFrom(s, from) ==
    LET n == Len(s)
        i == IF from < 0 THEN Max({n + from, 0}) ELSE Min({from, n})
    IN  SubSeq(s, i + 1, n)

\* trim_camel_history(history, keep_last)
trim_camel_history(hist, keep_last) ==
    IF hist = <<>> THEN hist
    ELSE LET head == SubSeq(hist, 1, 1)
             tail == SliceFrom(SliceFrom(hist, 1), 0 - keep_last)
         IN  head \o tail

HistEntries ==
    { Entry("Counselor", greeting), Entry("Client", <<"hello">>),
      Entry("Counselor", <<"How", " ", "are", " ", "you?">>) }

RECURSIVE HistoriesUpTo(_)
HistoriesUpTo(n) ==
    IF n = 0 THEN {<<>>}
    ELSE LET shorter == HistoriesUpTo(n - 1) IN
         shorter \cup {Append(h, e) : h \in shorter, e \in HistEntries}

TrimStart ==
    /\ fn = "trim_camel_history"
    /\ fn_args \in [history : HistoriesUpTo(MaxHistLen), keep_last : 0..MaxKeep]
    /\ fn_out = <<>>

CallTrim ==
    /\ fn = "trim_camel_history"
    /\ fn_out = <<>>
    /\ fn_out' = Ret(trim_camel_history(fn_args.history, fn_args.keep_last))
    /\ UNCHANGED <<fn, fn_args>>
    /\ UNCHANGED <<convVars, phaseVars, sessVars>>

TrimNext == CallTrim

----------------------------------------------------------------------------
(* Specifications *)

ConvInit == ConvStart /\ PhaseIdle /\ SessIdle /\ FnIdle

SpecConvert == ConvInit /\ [][ConvNext]_vars

PhaseInit == PhaseStart /\ ConvIdle /\ SessIdle /\ FnIdle

SpecPhase == PhaseInit /\ [][PhaseNext]_vars

SessInit == SessStart /\ ConvIdle /\ PhaseIdle /\ FnIdle

SpecSession == SessInit /\ [][SessNext]_vars

IntervalInit == IntervalStart /\ ConvIdle /\ PhaseIdle /\ SessIdle

SpecInterval == IntervalInit /\ [][IntervalNext]_vars

LookupInit == LookupStart /\ ConvIdle /\ PhaseIdle /\ SessIdle

SpecLookup == LookupInit /\ [][LookupNext]_vars

ValidateInit == ValidateStart /\ ConvIdle /\ PhaseIdle /\ SessIdle

SpecValidate == ValidateInit /\ [][ValidateNext]_vars

PlanParseInit == PlanParseStart /\ ConvIdle /\ PhaseIdle /\ SessIdle

SpecPlanParse == PlanParseInit /\ [][PlanParseNext]_vars

TrimInit == TrimStart /\ ConvIdle /\ PhaseIdle /\ SessIdle

SpecTrim == TrimInit /\ [][TrimNext]_vars


----------------------------------------------------------------------------
(* Properties of psi_case_to_cactus *)

\* what is wrong with a Gateway answer: the parse error, else the validation
\* result (OK for a valid answer)
FailureOf(response) ==
    LET obj == _parse_json_strict(response) IN
    IF obj.t = "exc" THEN obj ELSE _validate_cactus_shape(obj)

Invalid(response) == FailureOf(response).t = "exc"

LastResponse == responses[Len(responses)]

AllInvalid == \A i \in 1..Len(responses) : Invalid(responses[i])

\* C1: whenever convert returns, the returned value is the parsed answer of
\* the most recent Gateway call and it passes _validate_cactus_shape; an
\* answer that fails parsing or validation is never returned.
C1_ReturnsOnlyValidated ==
    conv_pc = "returned" =>
        /\ Len(responses) = Len(calls)
        /\ responses # <<>>
        /\ conv_out = _parse_json_strict(LastResponse)
        /\ conv_out.t # "exc"
        /\ _validate_cactus_shape(conv_out).t = "ok"

\* convert returned after an earlier attempt had failed
C1_Witness == conv_pc = "returned" /\ Len(responses) >= 2 /\ Invalid(responses[1])

\* C2: when every Gateway answer is invalid, convert raises the failure
\* after exactly max_retries + 1 calls: it has not stopped before, and it
\* makes no call after; empty and whitespace-only answers count as failures.
C2_FailsAfterBudget ==
    (AllInvalid /\ conv_pc # "transport") =>
        IF Len(calls) = max_retries + 1
        THEN conv_pc = "failed" /\ conv_out.t = "exc" /\ conv_out.type = "ValueError"
        ELSE conv_pc = "loop" /\ Len(calls) < max_retries + 1

\* the budget ran out on answers that include an empty and a blank one
C2_Witness ==
    /\ conv_pc = "failed"
    /\ max_retries >= 1
    /\ \E i, j \in 1..Len(responses) : responses[i] = <<>> /\ responses[j] = <<" ", "\n">>

\* C3: when the first valid answer is the one of attempt k, convert has
\* returned that record after exactly k + 1 calls and no call follows.
C3_ReturnsAtFirstValid ==
    \A k \in 1..Len(responses) :
        (~Invalid(responses[k]) /\ \A j \in 1..(k - 1) : Invalid(responses[j])) =>
            /\ k - 1 <= max_retries
            /\ conv_pc = "returned"
            /\ Len(calls) = k
            /\ Len(responses) = k
            /\ conv_out = _parse_json_strict(responses[k])

\* invalid, then valid: returned after exactly two calls
C3_Witness ==
    /\ conv_pc = "returned"
    /\ Len(calls) = 2
    /\ Invalid(responses[1])
    /\ max_retries >= 1

\* C4: the prompt of attempt 0 is the serialized case record alone; the
\* prompt of every later attempt carries, as its ERROR text, the message of
\* the attempt just before it, and the serialized case record.
C4_RepairPromptCarriesPreviousError ==
    \A n \in 1..Len(calls) :
        LET p == calls[n].user_prompt IN
        IF n = 1 THEN p = json_dumps(psi_case)
        ELSE /\ Contains(p, <<"ERROR:\n">> \o ErrText(FailureOf(responses[n - 1])) \o <<"\n\n">>)
             /\ Contains(p, json_dumps(psi_case))
             /\ p # json_dumps(psi_case)

\* a third call was made after two attempts that failed differently
C4_Witness ==
    /\ Len(calls) = 3
    /\ FailureOf(responses[1]) # FailureOf(responses[2])

\* C5: when the budget is exhausted, the exception raised carries the error
\* message of the final attempt, attempt number max_retries.
C5_FailureCarriesLastError ==
    (Len(responses) = max_retries + 1 /\ AllInvalid) =>
        /\ conv_pc = "failed"
        /\ conv_out.t = "exc"
        /\ Contains(conv_out.msg, ErrText(FailureOf(LastResponse)))
        /\ attempt = max_retries

\* the budget ran out and the last error differs from the first
C5_Witness ==
    /\ conv_pc = "failed"
    /\ Len(responses) >= 2
    /\ FailureOf(responses[1]) # FailureOf(LastResponse)

----------------------------------------------------------------------------
(* Properties of next_phase and parse_trust_score *)

PhaseOrder == <<"trust_building", "case_conceptualization", "solution_exploration">>

Rank(p) == CHOOSE i \in 1..Len(PhaseOrder) : PhaseOrder[i] = p

\* C6: in a dialogue that starts in trust_building, no application of
\* next_phase returns an earlier phase than the one it was given: the
\* phases of the dialogue never decrease in the order of PhaseOrder.
C6_PhaseNeverDecreases ==
    (phase_log # <<>> /\ phase_log[1] = "trust_building") =>
        /\ \A i \in 1..Len(phase_log) : phase_log[i] \in Phases
        /\ \A i \in 1..(Len(phase_log) - 1) : Rank(phase_log[i]) <= Rank(phase_log[i + 1])
        /\ (last_eval.done /\ last_eval.ret.t = "ret") =>
               Rank(last_eval.cur) <= Rank(last_eval.ret.v)

\* a dialogue from trust_building went through case_conceptualization, where
\* a score below 3 was evaluated
C6_Witness ==
    /\ Len(phase_log) >= 3
    /\ phase_log[1] = "trust_building"
    /\ phase_log[2] = "case_conceptualization"
    /\ phase_log[3] = "case_conceptualization"
    /\ last_eval.openness.t = "int"
    /\ last_eval.openness.v < 3

\* C7: for an integer openness o, next_phase follows the threshold table:
\* trust_building gives case_conceptualization iff o >= 3, else itself;
\* case_conceptualization gives solution_exploration iff o >= 4, else itself;
\* a value that is no phase is returned unchanged.  So one application
\* advances by at most one phase, also for openness 5.
C7_ThresholdTable ==
    (last_eval.done /\ last_eval.openness.t = "int") =>
        LET c == last_eval.cur
            o == last_eval.openness.v
            r == last_eval.ret
        IN  /\ r.t = "ret"
            /\ c = "trust_building" =>
                 /\ (r.v = "case_conceptualization") <=> (o >= 3)
                 /\ (r.v = "trust_building") <=> (o < 3)
            /\ c = "case_conceptualization" =>
                 /\ (r.v = "solution_exploration") <=> (o >= 4)
                 /\ (r.v = "case_conceptualization") <=> (o < 4)
            /\ c \notin {"trust_building", "case_conceptualization"} => r.v = c

\* openness 5 in trust_building gave case_conceptualization (one phase only)
C7_Witness ==
    /\ last_eval.done
    /\ last_eval.cur = "trust_building"
    /\ last_eval.openness = Num(5)
    /\ last_eval.ret = Ret("case_conceptualization")

\* C8: solution_exploration is terminal: next_phase returns it for every
\* openness, so a dialogue that has reached it stays in it.
C8_SolutionExplorationTerminal ==
    /\ (last_eval.done /\ last_eval.cur = "solution_exploration") =>
           last_eval.ret = Ret("solution_exploration")
    /\ \A i \in 1..Len(phase_log) : phase_log[i] = "solution_exploration" =>
           \A j \in i..Len(phase_log) : phase_log[j] = "solution_exploration"
    /\ ("solution_exploration" \in {phase_log[i] : i \in 1..Len(phase_log)}) =>
           phase = "solution_exploration"

\* in solution_exploration an openness at or above its table entry was evaluated
C8_Witness ==
    /\ last_eval.done
    /\ last_eval.cur = "solution_exploration"
    /\ last_eval.openness.t = "int"
    /\ last_eval.openness.v >= PHASE_UPGRADE_AT["solution_exploration"]
    /\ phase = "solution_exploration"

\* C9: a phase evaluation whose score is absent (parse_trust_score returned
\* None) raises no error and leaves the phase unchanged, in every phase.
C9_AbsentScoreHarmless ==
    (last_eval.done /\ last_eval.openness = None) =>
        /\ last_eval.ret = Ret(last_eval.cur)
        /\ phase_pc = "running"
        /\ phase = last_eval.cur

----------------------------------------------------------------------------
(* Properties of CamelCounselingSession *)

\* no Gateway call of the last operation raised
GatewayOk == last_op.pout.t # "exc" /\ last_op.cout.t # "exc"

\* C10: on a session whose intake_form and reason are set, a step(m) whose
\* Gateway calls succeed keeps the previous history as a prefix, appends
\* exactly the entries {Client, m} and {Counselor, reply}, and returns reply.
C10_StepAppendsTwo ==
    (/\ last_op.op = "step"
     /\ Truthy(last_op.pre.intake_form)
     /\ Truthy(last_op.pre.reason)
     /\ GatewayOk) =>
        LET n == Len(last_op.pre.history) IN
        /\ last_op.ret.t = "ret"
        /\ last_op.ret.v.t = "str"
        /\ Len(history) = n + 2
        /\ SubSeq(history, 1, n) = last_op.pre.history
        /\ history[n + 1] = Entry("Client", last_op.args.client_message)
        /\ history[n + 2] = Entry("Counselor", last_op.ret.v.v)
        /\ last_op.ccalls = 1

\* a step that first had to make the plan returned a reply on a session
\* that already had a greeting and a first client message
C10_Witness ==
    /\ last_op.op = "step"
    /\ last_op.ret.t = "ret"
    /\ last_op.pcalls = 1
    /\ Len(last_op.pre.history) >= 2
    /\ Len(history) = Len(last_op.pre.history) + 2

\* one of intake_form and reason was unset before the last operation
UnsetBefore == ~Truthy(last_op.pre.intake_form) \/ ~Truthy(last_op.pre.reason)

\* C11: step and ensure_plan on a session whose intake_form or reason is
\* unset raise at once: no Gateway call is made and no field is changed.
C11_PreconditionFirst ==
    (last_op.op \in {"step", "ensure_plan"} /\ UnsetBefore) =>
        /\ last_op.ret.t = "exc"
        /\ last_op.ret.type = "ValueError"
        /\ last_op.pcalls = 0
        /\ last_op.ccalls = 0
        /\ Session = last_op.pre

\* step on a session that a start left with an intake form, a history and
\* no reason
C11_Witness ==
    /\ last_op.op = "step"
    /\ Truthy(last_op.pre.intake_form)
    /\ ~Truthy(last_op.pre.reason)
    /\ last_op.pre.history # <<>>

IsPrefix(a, b) == Len(a) <= Len(b) /\ SubSeq(b, 1, Len(a)) = a

\* C12 as claimed: over start, ensure_plan and step the history before an
\* operation is a prefix of the history after it.
C12_AppendOnlyAcrossAll ==
    last_op.op # "none" => IsPrefix(last_op.pre.history, history)

\* C12, amended: ensure_plan and step keep the history before them as a
\* prefix of the history after them; start replaces the history by the
\* greeting followed by the optional first client message.
C12_AppendOnlyBetweenStarts ==
    /\ last_op.op \in {"ensure_plan", "step"} => IsPrefix(last_op.pre.history, history)
    /\ last_op.op = "start" =>
         /\ history[1] = Entry("Counselor", greeting)
         /\ Len(history) = IF last_op.args.first_client_message = <<>> THEN 1 ELSE 2
         /\ Len(history) = 2 => history[2] = Entry("Client", last_op.args.first_client_message)

\* a step extended a history that an earlier step had already extended
C12_Witness ==
    /\ last_op.op = "step"
    /\ Len(last_op.pre.history) >= 3
    /\ Len(history) = Len(last_op.pre.history) + 2

\* C13: after a step, whatever its outcome, every Client entry it appended
\* is immediately followed by a Counselor entry.
C13_ClientFollowedByCounselor ==
    last_op.op = "step" =>
        \A i \in (Len(last_op.pre.history) + 1)..Len(history) :
            history[i].role = "Client" =>
                i < Len(history) /\ history[i + 1].role = "Counselor"

\* C14: once a plan has been made (ensure_plan completed and set cbt_plan),
\* no later operation calls the planning agent or changes cbt_technique or
\* cbt_plan, whatever text the planning agent had returned.
C14_EnsurePlanIdempotent ==
    (last_op.op # "none" /\ last_op.pre.cbt_plan.t = "str") =>
        /\ last_op.pcalls = 0
        /\ cbt_plan = last_op.pre.cbt_plan
        /\ cbt_technique = last_op.pre.cbt_technique

\* C20: a Gateway exception during an attempt ends convert at once with
\* that same exception: it is the only call without an answer, no call
\* follows it, it is not turned into the exhaustion failure, and its text
\* is in no prompt.
C20_TransportErrorPropagates ==
    /\ Len(calls) \in {Len(responses), Len(responses) + 1}
    /\ Len(calls) = Len(responses) + 1 <=> conv_pc = "transport"
    /\ conv_pc = "transport" => conv_out = TransportError
    /\ conv_pc = "failed" => ~Contains(conv_out.msg, TransportError.msg)
    /\ \A n \in 1..Len(calls) : ~Contains(calls[n].user_prompt, TransportError.msg)
    /\ last_err.t = "str" => ~Contains(last_err.v, TransportError.msg)

\* the Gateway raised on a repair attempt, with retries still left
C20_Witness ==
    /\ conv_pc = "transport"
    /\ Len(calls) = 2
    /\ max_retries >= 2

\* the level a resistance-level text names: the text without surrounding
\* whitespace, in lower case; None names no level
LevelNamed(x) == IF x.t = "str" THEN Lower(Strip(x.v)) ELSE <<>>

\* C18: trust_eval_interval never raises; it returns 2 for beginner, 4 for
\* intermediate, 6 for advanced, and 2 for every other level, None and the
\* empty text included.
C18_IntervalTable ==
    (fn = "trust_eval_interval" /\ fn_out # <<>>) =>
        LET x == fn_args.resistance_level IN
        /\ fn_out.t = "ret"
        /\ fn_out.v.t = "int"
        /\ x = Str(<<"beginner">>) => fn_out.v.v = 2
        /\ x = Str(<<"intermediate">>) => fn_out.v.v = 4
        /\ x = Str(<<"advanced">>) => fn_out.v.v = 6
        /\ x \in {None, Str(<<>>)} => fn_out.v.v = 2
        /\ fn_out.v.v = 4 <=> LevelNamed(x) = <<"intermediate">>
        /\ fn_out.v.v = 6 <=> LevelNamed(x) = <<"advanced">>
        /\ fn_out.v.v = 2 <=> LevelNamed(x) \notin {<<"intermediate">>, <<"advanced">>}

\* the function was applied to None and returned
C18_Witness ==
    /\ fn = "trust_eval_interval"
    /\ fn_args.resistance_level = None
    /\ fn_out # <<>>

\* the identifier text of a case: str of its "id", empty when it has none
IdText(c) == IF "id" \in DOMAIN c.v THEN PyStr(c.v["id"]) ELSE <<>>

\* the positions of the cases whose identifier is the requested one
MatchingCases ==
    {i \in 1..Len(fn_args.cases) :
        Strip(IdText(fn_args.cases[i])) = Strip(PyStr(fn_args.case_id))}

\* the known identifiers: those of the cases that have a non-null one
KnownIds ==
    {PyStr(fn_args.cases[i].v["id"]) :
        i \in {j \in 1..Len(fn_args.cases) :
                 "id" \in DOMAIN fn_args.cases[j].v /\ fn_args.cases[j].v["id"] # None}}

\* l lists min(AvailableShown, number of known ids) known identifiers in
\* strictly ascending order, and no known identifier left out sorts before
\* a listed one
IsListing(l) ==
    /\ Len(l) = IF Cardinality(KnownIds) < AvailableShown
                THEN Cardinality(KnownIds) ELSE AvailableShown
    /\ \A i \in 1..Len(l) : l[i] \in KnownIds
    /\ \A i \in 1..(Len(l) - 1) : StrLess(l[i], l[i + 1])
    /\ \A x \in KnownIds \ {l[i] : i \in 1..Len(l)} :
           \A i \in 1..Len(l) : StrLess(l[i], x)

\* C19: get_case_by_id returns the first case whose identifier equals the
\* requested one after trimming both, and exactly when there is such a
\* case; otherwise it raises a LookupError whose message lists the known
\* identifiers in sorted order, at most AvailableShown of them.
C19_LookupByTrimmedId ==
    (fn = "get_case_by_id" /\ fn_out # <<>>) =>
        /\ fn_out.t = "ret" <=> MatchingCases # {}
        /\ fn_out.t = "ret" =>
             /\ \E i \in MatchingCases : fn_out.v = fn_args.cases[i]
             /\ fn_out.v = fn_args.cases[Min(MatchingCases)]
        /\ fn_out.t # "ret" =>
             /\ fn_out.t = "exc"
             /\ fn_out.type \in {"LookupError", "KeyError", "IndexError"}
             /\ \E n \in 0..AvailableShown :
                  LET l == SubSeq(Available(fn_args.cases), 1, n) IN
                  /\ IsListing(l)
                  /\ Contains(fn_out.msg, ReprList(l) \o <<" ...">>)

\* a lookup failed on the long list, whose identifiers exceed the listing
C19_Witness ==
    /\ fn = "get_case_by_id"
    /\ fn_out # <<>>
    /\ fn_out.t = "exc"
    /\ Cardinality(KnownIds) > AvailableShown

----------------------------------------------------------------------------
(* Properties of _validate_cactus_shape *)

\* a string with a character that is not whitespace
NonBlank(x) == x.t = "str" /\ \E i \in 1..Len(x.v) : ~IsSpace(x.v[i])

NonBlankList(x, min_len) ==
    /\ x.t = "list"
    /\ Len(x.v) >= min_len
    /\ \A i \in 1..Len(x.v) : NonBlank(x.v[i])

\* the schema of a Cactus record, from its description: the mandatory
\* fields and no others, text fields with text in them, a numeric age
SatisfiesSchema(obj) ==
    /\ obj.t = "dict"
    /\ DOMAIN obj.v = {"thought", "patterns", "intake_form", "cbt_technique", "cbt_plan"}
    /\ NonBlank(obj.v["thought"])
    /\ NonBlankList(obj.v["patterns"], 1)
    /\ LET intake == obj.v["intake_form"] IN
       /\ intake.t = "dict"
       /\ DOMAIN intake.v = {"client_info", "presenting_problem", "past_history",
                             "academic_occupational_functioning_level",
                             "reason_for_seeking_counseling", "social_support_system"}
       /\ LET ci == intake.v["client_info"] IN
          /\ ci.t = "dict"
          /\ DOMAIN ci.v = {"name", "age", "gender", "occupation", "education",
                            "marital_status", "family_details"}
          /\ ci.v["age"].t \in {"int", "float"}
          /\ \A k \in DOMAIN ci.v \ {"age"} : NonBlank(ci.v[k])
       /\ NonBlankList(intake.v["presenting_problem"], 3)
       /\ NonBlankList(intake.v["past_history"], 1)
       /\ NonBlankList(intake.v["academic_occupational_functioning_level"], 1)
       /\ NonBlank(intake.v["reason_for_seeking_counseling"])
       /\ NonBlank(intake.v["social_support_system"])
    /\ NonBlank(obj.v["cbt_technique"])
    /\ LET plan == obj.v["cbt_plan"] IN
       /\ plan.t = "dict"
       /\ DOMAIN plan.v = {"1", "2", "3", "4", "5"}
       /\ \A k \in DOMAIN plan.v : NonBlank(plan.v[k])

Validated == fn = "_validate_cactus_shape" /\ fn_out # <<>>

\* C15: the validator accepts every record that satisfies the schema
\* exactly.
C15_SchemaRecordsPass ==
    (Validated /\ SatisfiesSchema(fn_args.obj)) => fn_out = OK

\* a conforming record with a fractional age and exactly three presenting
\* problems was accepted
C15_Witness ==
    /\ Validated
    /\ fn_args.muts = <<>>
    /\ fn_args.obj.v["intake_form"].v["client_info"].v["age"].t = "float"
    /\ Len(fn_args.obj.v["intake_form"].v["presenting_problem"].v) = 3
    /\ fn_out = OK

\* the single changes C16 speaks of: a required field removed, the
\* presenting problems cut below three, a plan key removed or added
SingleChanges ==
    {m \in Mutations : m.kind \in {"drop_top", "drop_intake", "drop_ci_key",
                                   "drop_plan_key", "extra_plan_key"}}
    \cup {Mut("short_list", "presenting_problem", n) : n \in 0..2}

\* the field a change affects, as a message would name it
AffectedField(m) ==
    IF m.kind \in {"drop_plan_key", "extra_plan_key"} THEN "cbt_plan" ELSE m.f

\* C16: a conforming record with one such change is rejected with a
\* schema violation whose message names the affected field.
C16_SingleChangeRejected ==
    (Validated /\ Len(fn_args.muts) = 1 /\ fn_args.muts[1] \in SingleChanges) =>
        /\ fn_out.t = "exc"
        /\ fn_out.type = "ValueError"
        /\ \E i \in 1..Len(fn_out.msg) : fn_out.msg[i] = AffectedField(fn_args.muts[1])

\* C17: of two defects the validator reports the one whose check comes
\* first in the function, exactly as it reports that defect alone: top-level
\* keys, thought, patterns, client_info fields in declared order, list
\* fields (length, then content), the intake text fields, technique, plan.
C17_FirstViolationReported ==
    (Validated /\ Len(fn_args.muts) = 2) =>
        LET alone == _validate_cactus_shape(Mutate(fn_args.base, fn_args.muts[1])) IN
        /\ alone.t = "exc"
        /\ fn_out = alone

\* a record with its presenting problems cut short and a blank technique
\* was validated; so was one with a blank thought and a missing plan key
C17_Witness ==
    /\ Validated
    /\ fn_args.muts = <<Mut("short_list", "presenting_problem", 2),
                        Mut("blank_top", "cbt_technique", 0)>>
    /\ fn_out.t = "exc"

----------------------------------------------------------------------------
(* Properties of start, generate_plan and trim_camel_history *)

\* C21: after a start that returns, on a fresh session or on one started
\* before, the planning agent has just been called with that start's intake
\* form, reason and freshly seeded history, and cbt_technique and cbt_plan
\* are what that call's answer parses to.
C21_StartPlansAfresh ==
    (last_op.op = "start" /\ last_op.ret.t = "ret") =>
        /\ last_op.pcalls = 1
        /\ planner_log # <<>>
        /\ planner_log[Len(planner_log)] =
               [client_information |-> last_op.args.intake_form,
                reason |-> last_op.args.reason,
                history |-> SeedHistory(last_op.args.first_client_message)]
        /\ last_op.pout.t = "str"
        /\ cbt_technique = generate_plan(last_op.pout.v).technique
        /\ cbt_plan.v = (IF generate_plan(last_op.pout.v).plan = None THEN <<>>
                         ELSE generate_plan(last_op.pout.v).plan.v)

\* the techniques a planning answer can name (the prompt lists them)
TechniqueNames == {"Decatastrophizing"}

\* the answer names no technique
NamesNoTechnique(raw) == \A i \in 1..Len(raw) : raw[i] \notin TechniqueNames

\* the text of a parsed plan; None stands for no text
PlanText(p) == IF p.t = "str" THEN p.v ELSE <<>>

\* C22: generate_plan returns for every planning answer; without the plan
\* delimiter the plan is the whole answer, trimmed; and when the answer
\* names no technique, the technique is null.
C22_PlanParsingTolerant ==
    (fn = "generate_plan" /\ fn_out # <<>>) =>
        /\ fn_out.t = "ret"
        /\ ~Contains(fn_args.raw, PLAN_DELIM) =>
               PlanText(fn_out.v.plan) = Strip(fn_args.raw)
        /\ NamesNoTechnique(fn_args.raw) => fn_out.v.technique = None

\* C23: for keep_last >= 0, trim_camel_history returns an empty history as
\* it is, and of a non-empty one the first entry followed by the last
\* keep_last of the others in their order: min(len, 1 + keep_last) entries.
C23_TrimKeepsGreetingAndLast ==
    (fn = "trim_camel_history" /\ fn_out # <<>>) =>
        LET h == fn_args.history
            k == fn_args.keep_last
            r == fn_out.v
        IN  /\ fn_out.t = "ret"
            /\ h = <<>> => r = <<>>
            /\ h # <<>> =>
                 /\ Len(r) = IF Len(h) < 1 + k THEN Len(h) ELSE 1 + k
                 /\ r[1] = h[1]
                 /\ \A j \in 2..Len(r) : r[j] = h[Len(h) - Len(r) + j]

====
